---- MODULE Spec2Model ----
(***************************************************************************)
(* Model of the job scheduling subsystem of clari:                         *)
(*   src/src/task_queue.py  (Task, TaskQueue)                              *)
(*   src/src/storage.py     (Storage, the sqlite table "tasks")            *)
(* One TaskQueue instance runs on one asyncio event loop; add_task may     *)
(* also be called from the watchdog observer thread.  A coroutine of       *)
(* process_task is cut at its await and at the statements a thread can     *)
(* observe; the event loop runs one coroutine at a time.                   *)
(***************************************************************************)
EXTENDS Bags, FiniteSets, Integers, Sequences, TLC

VARIABLES
    storage,      \* TaskQueue.storage: "unset" (never assigned by __init__) or "attached"
    db,           \* rows of the sqlite table tasks, a bag of rows
    tasks,        \* TaskQueue.tasks, the list of Task objects
    running,      \* TaskQueue.running
    now,          \* wall clock, in seconds since the module was imported
    runPc,        \* position of the run() coroutine
    batch,        \* run(): the local list batch, as indices into tasks
    co,           \* position of each process_task coroutine of the batch
    progress,     \* run(): the local ProgressTracker
    summary,      \* value returned by the last run()
    results,      \* files of the directory results/, a set of [name, content]
    added,        \* arguments and outcome of the last add_task call
    pending_out,  \* value returned by get_pending_tasks, when it was the last call
    raised,       \* exceptions raised so far inside the try of process_task
    saved,        \* the last save_task call, when it was the last call to the store
    observer,     \* the watchdog observer thread: "none", "running" or "dead"
    calls,        \* the add_task call of each caller that is between two statements
    event,        \* the last event the observer thread handed to the handler
    other         \* a second run() coroutine of the event loop, while it is suspended

vars == <<storage, db, tasks, running, now, runPc, batch, co, progress,
          summary, results, added, pending_out, raised, saved, observer, calls,
          event, other>>

----------------------------------------------------------------------------
(* Bounds of the model *)

MaxTasks == 4        \* add_task calls per TaskQueue
MaxClock == 1        \* seconds the clock advances
MaxStoreIds == 3     \* distinct ids passed to save_task directly
MaxOverlapTasks == 2 \* add_task calls before two overlapping run() calls

(* Program constants *)

BatchSize == 3       \* pending_tasks[:3]
ImportTime == 0      \* Task.created_at default, evaluated once at class definition
WatchPriority == 5   \* priority of tasks queued by the watcher

(* Input sets *)

Jobs == {<<"code_improvement", 0>>, <<"dependency_check", 5>>, <<"unknown", 0>>}
\* the range the help text of --priority names, and calls outside it
MinPriority == 0
MaxPriority == 10
OutOfRangeJobs == {<<"code_improvement", MinPriority - 1>>,
                   <<"code_improvement", MaxPriority + 1>>}
PeerJobs == {<<"code_improvement", 0>>}
RestartJobs == {<<"code_improvement", 0>>}
OverlapJobs == {<<"code_improvement", 0>>}
LiveJobs == {<<"code_improvement", 0>>, <<"unknown", 0>>}
OpenTypes == {"code_improvement", "test_generation"}
KnownTypes == {"code_improvement", "test_generation", "dependency_check"}
Paths == {"a.py"}
Priorities == {0, 5}
RunnerErrors == {"boom"}
EventPaths == {"a.py", "notes.txt"}
WatchedPaths == EventPaths \cup {"a.pyc", "py"}
EventKinds == {"modified", "created", "deleted", "moved"}
OpenError == "No such file or directory"
SinkError == "cannot write result file"

----------------------------------------------------------------------------
(* Values *)

None == [tag |-> "none", val |-> ""]
Improvements == [tag |-> "dict", val |-> "improvements"]
EmptyDict == [tag |-> "dict", val |-> ""]
RunnerOutputs == {Improvements}

\* a result json cannot encode, such as a set or an object
Unserializable == [tag |-> "object", val |-> "set"]

\* {'error': str(e)}
ErrorPayload(m) == [tag |-> "error", val |-> m]

\* Python truth value of a result
Truthy(r) == r.tag # "none" /\ r # EmptyDict

\* json.dumps(r) raises TypeError
DumpRaises(r) == Truthy(r) /\ r.tag = "object"

\* json.dumps(task.result) if task.result else None
DumpResult(r) == IF Truthy(r) THEN [tag |-> "json", val |-> r.tag \o ":" \o r.val]
                 ELSE None

\* an id without the length of the list
TaskIdNoSeq(type, n, t) == <<type, 0, t>>

\* f"{task_type}_{len(self.tasks)}_{datetime.now().strftime('%Y%m%d_%H%M%S')}"
TaskId(type, n, t) == <<type, n, t>>

\* a constructor call that leaves the priority at its default
TaskDefaultPriority(id, type, path, prio) ==
    [id |-> id, type |-> type, input_path |-> path, status |-> "pending",
     created_at |-> ImportTime, result |-> None, priority |-> 0]

\* Task(id=..., type=..., input_path=..., priority=...)
Task(id, type, path, prio) ==
    [id |-> id, type |-> type, input_path |-> path, status |-> "pending",
     created_at |-> ImportTime, result |-> None, priority |-> prio]

Min(a, b) == IF a < b THEN a ELSE b

Range(s) == {s[i] : i \in DOMAIN s}

----------------------------------------------------------------------------
(* Storage: the table tasks *)

\* the row that save_task binds to the INSERT statement
RowOf(task) ==
    [id |-> task.id, type |-> task.type, input_path |-> task.input_path,
     status |-> task.status, created_at |-> task.created_at,
     result |-> DumpResult(task.result), priority |-> task.priority]

\* the rows of the table whose id is not the given one
WithoutId(table, id) ==
    LET keep == {r \in BagToSet(table) : r.id # id}
    IN  [r \in keep |-> table[r]]

\* a plain INSERT into a table without a primary key
SaveTaskInsert(table, task) == table (+) SetToBag({RowOf(task)})

\* a save that deletes the row of the id before it encodes the result
SaveTaskDeleteFirst(table, task) ==
    IF DumpRaises(task.result) THEN WithoutId(table, task.id)
    ELSE WithoutId(table, task.id) (+) SetToBag({RowOf(task)})

\* INSERT OR REPLACE INTO tasks ... with id TEXT PRIMARY KEY; the parameters,
\* json.dumps among them, are evaluated before execute is called
SaveTask(table, task) ==
    IF DumpRaises(task.result) THEN table
    ELSE WithoutId(table, task.id) (+) SetToBag({RowOf(task)})

\* a schema creation that drops the table first
InitTableDrop(table) == EmptyBag

\* CREATE TABLE IF NOT EXISTS tasks
InitTable(table) == table

\* the rows SELECT * FROM tasks WHERE status='pending' reads
PendingRows(table) ==
    LET keep == {r \in BagToSet(table) : r.status = "pending"}
    IN  [r \in keep |-> table[r]]

\* a list holds exactly the rows of a bag, each as often as the bag does
ListsBag(s, b) ==
    /\ Len(s) = BagCardinality(b)
    /\ \A r \in BagToSet(b) : Cardinality({i \in DOMAIN s : s[i] = r}) = b[r]

\* ORDER BY priority DESC: the order of rows of equal priority is not specified
OrderedByPriority(s) ==
    \A i, j \in DOMAIN s : i < j => s[i].priority >= s[j].priority

\* the lists get_pending_tasks may return
PendingLists(table) ==
    LET b == PendingRows(table)
        n == BagCardinality(b)
    IN  {s \in [1..n -> BagToSet(b)] : ListsBag(s, b) /\ OrderedByPriority(s)}

----------------------------------------------------------------------------
(* TaskQueue *)

NoId == <<"", 0, 0>>

\* no add_task call has been made
NoCall == [op |-> "none", type |-> "", input_path |-> "", priority |-> 0, id |-> NoId]

\* no record
NoTask == Task(NoId, "", "", 0)

\* the threads that call add_task: the observer thread and any other caller
Callers == {"watcher", "caller"}

\* no add_task call of the caller is between two statements
NoFrame == [pc |-> "idle", task |-> NoTask]

\* the last call to the store was not save_task or init_db
NoSave == [op |-> "none", task |-> NoTask, replaced |-> FALSE, error |-> FALSE]

\* init_db was called
InitCall == [NoSave EXCEPT !.op = "init_db"]

\* save_task was called with this record: it raised, or wrote the row and
\* found a row of its id or not
Save(table, task) ==
    [op |-> "save_task", task |-> task,
     replaced |-> /\ ~DumpRaises(task.result)
                  /\ \E r \in BagToSet(table) : r.id = task.id,
     error |-> DumpRaises(task.result)]

\* the observer thread handed an event of this kind for this path to the handler
Event(kind, path) == [kind |-> kind, path |-> path]

\* no event yet
NoEvent == Event("none", "")

\* a run() coroutine that has not been entered
NoRun ==
    [pc |-> "idle", batch |-> <<>>, co |-> <<>>,
     progress |-> [total |-> 0, successful |-> 0, failed |-> 0]]

\* add_task was called with these arguments and ended this way
Call(op, type, path, prio, id) ==
    [op |-> op, type |-> type, input_path |-> path, priority |-> prio, id |-> id]

Init ==
    /\ storage = "unset"
    /\ db = EmptyBag
    /\ tasks = <<>>
    /\ running = FALSE
    /\ now = ImportTime
    /\ runPc = "idle"
    /\ batch = <<>>
    /\ co = <<>>
    /\ progress = [total |-> 0, successful |-> 0, failed |-> 0]
    /\ summary = [returned |-> FALSE, total |-> 0, successful |-> 0, failed |-> 0]
    /\ results = {}
    /\ added = NoCall
    /\ pending_out = <<>>
    /\ raised = {}
    /\ saved = NoSave
    /\ observer = "none"
    /\ calls = [c \in Callers |-> NoFrame]
    /\ event = NoEvent
    /\ other = NoRun

\* the embedding program assigns queue.storage = Storage(); Storage.__init__
\* creates the table if it does not exist
AttachStorage ==
    /\ storage = "unset"
    /\ storage' = "attached"
    /\ UNCHANGED <<event, other, observer, calls, db, tasks, running, now, runPc, batch, co,
                   progress, summary, results, added, pending_out, raised, saved>>

\* the wall clock advances by one second
Tick ==
    /\ now < MaxClock
    /\ now' = now + 1
    /\ UNCHANGED <<event, other, observer, calls, storage, db, tasks, running, runPc, batch, co, progress,
                   summary, results, added, pending_out, raised, saved>>

\* TaskQueue.add_task, lines 35-47, run without interruption by any caller
AddTaskCall(type, path, prio) ==
    LET task_id == TaskId(type, Len(tasks), now)
        task == Task(task_id, type, path, prio)
    IN  /\ Len(tasks) < MaxTasks
        /\ IF storage = "unset"
           THEN \* self.storage raises AttributeError
                /\ added' = Call("AttributeError", type, path, prio, NoId)
                /\ UNCHANGED <<db, tasks, saved>>
           ELSE /\ db' = SaveTask(db, task)
                /\ saved' = Save(db, task)
                /\ tasks' = Append(tasks, task)
                /\ added' = Call("returned", type, path, prio, task_id)
        /\ UNCHANGED <<other, calls, storage, running, now, runPc, batch, co, progress,
                       summary, results, pending_out, raised>>

\* TaskQueue.add_task called by the embedding program
AddTask(type, path, prio) ==
    /\ AddTaskCall(type, path, prio)
    /\ UNCHANGED <<event, observer>>

\* add_task when the store is attached and save_task raises sqlite3.Error
\* (the database is locked, the disk is full): line 44 raises, line 45 is
\* not reached
AddTaskStoreFails(type, path, prio) ==
    /\ Len(tasks) < MaxTasks
    /\ storage = "attached"
    /\ added' = Call("sqlite3.Error", type, path, prio, NoId)
    /\ UNCHANGED <<event, other, observer, calls, storage, db, tasks, running, now, runPc, batch, co, progress,
                   summary, results, pending_out, raised, saved>>

\* add_task on a TaskQueue another process has just constructed, with a
\* store attached: its tasks list is empty, its records carry the import
\* time of that process, and Storage opens the same data/tasks.db
PeerAddTask(type, path, prio) ==
    LET task_id == TaskId(type, 0, now)
        task == [Task(task_id, type, path, prio) EXCEPT !.created_at = now]
    IN  /\ db' = SaveTask(db, task)
        /\ saved' = Save(db, task)
        /\ UNCHANGED <<event, other, observer, calls, storage, tasks, running, now, runPc, batch, co, progress,
                       summary, results, added, pending_out, raised>>

\* a path that holds the suffix anywhere
Contains(path, suffix) ==
    \E i \in 1..Len(path) :
        SubSeq(path, i, Min(i + Len(suffix) - 1, Len(path))) = suffix

\* event.src_path.endswith(suffix)
EndsWith(path, suffix) ==
    /\ Len(path) >= Len(suffix)
    /\ SubSeq(path, Len(path) - Len(suffix) + 1, Len(path)) = suffix

\* watch_directory, lines 110-125: the observer thread is started
WatchDirectory ==
    /\ observer = "none"
    /\ observer' = "running"
    /\ UNCHANGED <<event, other, calls, storage, db, tasks, running, now, runPc, batch,
                   co, progress, summary, results, added, pending_out, raised, saved>>

\* the observer thread after the handler has run: on_modified catches
\* nothing, and an exception that leaves the handler ends the thread
AfterHandler(outcome) == IF outcome = "returned" THEN "running" ELSE "dead"

\* CodeChangeHandler.on_modified(event), called on the observer thread
OnModified(path) ==
    /\ observer = "running"
    /\ event' = Event("modified", path)
    /\ IF EndsWith(path, ".py")
       THEN /\ AddTaskCall("code_improvement", path, WatchPriority)
            /\ observer' = AfterHandler(added'.op)
       ELSE UNCHANGED <<other, observer, calls, storage, db, tasks, running, now, runPc,
                        batch, co, progress, summary, results, added, pending_out,
                        raised, saved>>

\* an event of another kind: CodeChangeHandler overrides on_modified alone,
\* and on_created, on_deleted and on_moved of FileSystemEventHandler do
\* nothing
OnOther(kind, path) ==
    /\ observer = "running"
    /\ kind # "modified"
    /\ event' = Event(kind, path)
    /\ UNCHANGED <<other, observer, calls, storage, db, tasks, running, now, runPc,
                   batch, co, progress, summary, results, added, pending_out,
                   raised, saved>>

\* the add_task calls that are between two statements
Calling == {c \in Callers : calls[c].pc # "idle"}

\* add_task, lines 36-43, on the thread of caller c: the id is computed from
\* the length of the list and the record is built
AddBegin(c, type, path, prio) ==
    /\ calls[c].pc = "idle"
    /\ Len(tasks) + Cardinality(Calling) < MaxTasks
    /\ c = "watcher" =>
          /\ observer = "running"
          /\ EndsWith(path, ".py") /\ type = "code_improvement" /\ prio = WatchPriority
    /\ calls' = [calls EXCEPT ![c] =
                    [pc |-> "save",
                     task |-> Task(TaskId(type, Len(tasks), now), type, path, prio)]]
    /\ UNCHANGED <<event, other, observer, storage, db, tasks, running, now, runPc, batch, co,
                   progress, summary, results, added, pending_out, raised, saved>>

\* add_task, line 44, on the thread of caller c
AddSave(c) ==
    LET task == calls[c].task
    IN  /\ calls[c].pc = "save"
        /\ IF storage = "unset"
           THEN /\ added' = Call("AttributeError", task.type, task.input_path,
                                 task.priority, NoId)
                /\ calls' = [calls EXCEPT ![c] = NoFrame]
                /\ observer' = IF c = "watcher" THEN AfterHandler("AttributeError")
                               ELSE observer
                /\ UNCHANGED <<db, saved>>
           ELSE /\ db' = SaveTask(db, task)
                /\ saved' = Save(db, task)
                /\ calls' = [calls EXCEPT ![c].pc = "append"]
                /\ UNCHANGED <<added, observer>>
        /\ UNCHANGED <<event, other, storage, tasks, running, now, runPc, batch, co,
                       progress, summary, results, pending_out, raised>>

\* add_task, lines 45-47, on the thread of caller c
AddAppend(c) ==
    LET task == calls[c].task
    IN  /\ calls[c].pc = "append"
        /\ tasks' = Append(tasks, task)
        /\ added' = Call("returned", task.type, task.input_path, task.priority, task.id)
        /\ calls' = [calls EXCEPT ![c] = NoFrame]
        /\ UNCHANGED <<event, other, observer, storage, db, running, now, runPc, batch, co,
                       progress, summary, results, pending_out, raised, saved>>

\* the stop signal: the embedding program sets queue.running = False
Stop ==
    /\ running
    /\ running' = FALSE
    /\ UNCHANGED <<event, other, observer, calls, storage, db, tasks, now, runPc, batch, co, progress, summary,
                   results, added, pending_out, raised, saved>>

\* [t for t in self.tasks if t.status == 'pending'], as indices into tasks
RECURSIVE PendingFrom(_, _)
PendingFrom(ts, i) ==
    IF i > Len(ts) THEN <<>>
    ELSE IF ts[i].status = "pending" THEN <<i>> \o PendingFrom(ts, i + 1)
    ELSE PendingFrom(ts, i + 1)

\* the pending records among those the list held when run() was entered
PendingTasksAtEntry(ts) ==
    PendingFrom(SubSeq(ts, 1, Min(progress.total, Len(ts))), 1)

PendingTasks(ts) == PendingFrom(ts, 1)

\* a batch that is not cut to the concurrency limit
HeadBatchUncut(p) == p

\* pending_tasks[:3]
HeadBatch(p) == SubSeq(p, 1, Min(BatchSize, Len(p)))

\* ProgressTracker(total)
NewProgress(total) == [total |-> total, successful |-> 0, failed |-> 0]

\* ProgressTracker.update(path, status, message)
ProgressUpdate(p, status) ==
    IF status = "completed"
    THEN [p EXCEPT !.successful = @ + 1]
    ELSE [p EXCEPT !.failed = @ + 1]

\* for task in batch: progress.update(...)
RECURSIVE ProgressAll(_, _, _, _)
ProgressAll(p, ts, b, i) ==
    IF i > Len(b) THEN p
    ELSE ProgressAll(ProgressUpdate(p, ts[b[i]].status), ts, b, i + 1)

\* ProgressTracker.get_summary()
GetSummary(p) ==
    [returned |-> TRUE, total |-> p.total, successful |-> p.successful,
     failed |-> p.failed]

\* the event loop is inside a process_task coroutine, between two awaits
InCoroutine == \E i \in DOMAIN co : co[i] \in {"started", "resumed", "saving"}

\* an entry of run() that leaves the running flag as it finds it
RunStartKeepsFlag ==
    /\ runPc = "idle"
    /\ progress' = NewProgress(Len(tasks))
    /\ runPc' = "loop"
    /\ batch' = <<>>
    /\ co' = <<>>
    /\ UNCHANGED <<event, other, observer, calls, storage, db, tasks, running, now, summary,
                   results, added, pending_out, raised, saved>>

\* run(), lines 92-93
RunStart ==
    /\ runPc = "idle"
    /\ running' = TRUE
    /\ progress' = NewProgress(Len(tasks))
    /\ runPc' = "loop"
    /\ batch' = <<>>
    /\ co' = <<>>
    /\ UNCHANGED <<event, other, observer, calls, storage, db, tasks, now, summary, results, added,
                   pending_out, raised, saved>>

\* a loop that does not read the running flag
LoopContinuesIgnoresStop == tasks # <<>> /\ PendingTasks(tasks) # <<>>

\* the loop condition and the break of run()
LoopContinues == running /\ tasks # <<>> /\ PendingTasks(tasks) # <<>>

\* run(), lines 95-102: select the batch and hand it to asyncio.gather
RunSelect ==
    /\ runPc = "loop"
    /\ LoopContinues
    /\ batch' = HeadBatch(PendingTasks(tasks))
    /\ co' = [i \in 1..Len(batch') |-> "new"]
    /\ runPc' = "gather"
    /\ UNCHANGED <<event, other, observer, calls, storage, db, tasks, running, now, progress, summary,
                   results, added, pending_out, raised, saved>>

\* a run() that tests its condition with if: it returns after the first batch
RunReturnAfterBatch ==
    /\ runPc = "loop"
    /\ ~LoopContinues \/ batch # <<>>
    /\ summary' = GetSummary(progress)
    /\ runPc' = "done"
    /\ UNCHANGED <<event, other, observer, calls, storage, db, tasks, running, now, batch, co, progress,
                   results, added, pending_out, raised, saved>>

\* run(), lines 95-98 and 108: leave the loop and return the summary
RunReturn ==
    /\ runPc = "loop"
    /\ ~LoopContinues
    /\ summary' = GetSummary(progress)
    /\ runPc' = "done"
    /\ UNCHANGED <<event, other, observer, calls, storage, db, tasks, running, now, batch, co, progress,
                   results, added, pending_out, raised, saved>>

\* a join that returns as soon as one coroutine has finished
GatherDoneFirst(c) == \E i \in DOMAIN c : c[i] = "done"

\* await asyncio.gather(...): gather returns once every coroutine has finished
GatherDone(c) == \A i \in DOMAIN c : c[i] = "done"

\* run(), lines 102-106: gather returns, the progress of the batch is reported
RunJoin ==
    /\ runPc = "gather"
    /\ GatherDone(co)
    /\ progress' = ProgressAll(progress, tasks, batch, 1)
    /\ runPc' = "loop"
    /\ UNCHANGED <<event, other, observer, calls, storage, db, tasks, running, now, batch, co, summary,
                   results, added, pending_out, raised, saved>>

\* the event loop goes from one run() coroutine to the other: a run()
\* gives up the loop only at its await of gather (line 102), before it is
\* entered and after it has returned, and a process_task coroutine only at
\* its await of the runner
Swap ==
    /\ runPc \in {"idle", "gather", "done"}
    /\ ~InCoroutine
    /\ runPc' = other.pc
    /\ batch' = other.batch
    /\ co' = other.co
    /\ progress' = other.progress
    /\ other' = [pc |-> runPc, batch |-> batch, co |-> co, progress |-> progress]
    /\ UNCHANGED <<event, observer, calls, storage, db, tasks, running, now, summary,
                   results, added, pending_out, raised, saved>>

\* f"{task.id}_result.json"
ResultName(id) == <<id, "_result.json">>

\* the object _save_result dumps
ResultFile(task) ==
    [name |-> ResultName(task.id),
     content |-> [task_id |-> task.id, type |-> task.type,
                  input_path |-> task.input_path, status |-> task.status,
                  created_at |-> task.created_at, result |-> task.result]]

\* open(output_file, 'w') and json.dump
WriteFile(files, f) == {g \in files : g.name # f.name} \cup {f}

\* an except branch that records the status but not the error
FailedNoPayload(task, m) == [task EXCEPT !.status = "failed"]

\* an except branch that also resets the priority of the record
FailedDemoted(task, m) ==
    [task EXCEPT !.status = "failed", !.result = ErrorPayload(m), !.priority = 0]

\* the except branch of process_task, lines 69-72
Failed(task, m) == [task EXCEPT !.status = "failed", !.result = ErrorPayload(m)]

\* a failure that takes the running members of the batch down with it
AfterFailureAbort(ts, k, m) ==
    [j \in DOMAIN ts |->
        IF j = k \/ ts[j].status = "running" THEN Failed(ts[j], m) ELSE ts[j]]

\* the tasks after the coroutine of tasks[k] caught an exception with message m
AfterFailure(ts, k, m) == [ts EXCEPT ![k] = Failed(ts[k], m)]

\* an exception raised inside the try of process_task for tasks[k]
Raise(k, by, m) == [task |-> k, by |-> by, msg |-> m]

\* process_task, line 52: the coroutine starts; gather starts them in order
Start(i) ==
    /\ runPc = "gather"
    /\ ~InCoroutine
    /\ co[i] = "new"
    /\ \A j \in 1..(i - 1) : co[j] # "new"
    /\ tasks' = [tasks EXCEPT ![batch[i]].status = "running"]
    /\ co' = [co EXCEPT ![i] = "started"]
    /\ UNCHANGED <<event, other, observer, calls, storage, db, running, now, runPc, batch, progress, summary,
                   results, added, pending_out, raised, saved>>

\* process_task, lines 53-64: read the input and call the runner of the type
Body(i) ==
    /\ runPc = "gather"
    /\ co[i] = "started"
    /\ LET k == batch[i]
       IN  \/ /\ tasks[k].type \in OpenTypes
              /\ \/ /\ co' = [co EXCEPT ![i] = "awaiting"]
                    /\ UNCHANGED <<tasks, raised>>
                 \/ \* open raises
                    /\ tasks' = AfterFailure(tasks, k, OpenError)
                    /\ raised' = raised \cup {Raise(k, "open", OpenError)}
                    /\ co' = [co EXCEPT ![i] = "done"]
           \/ /\ tasks[k].type = "dependency_check"
              /\ co' = [co EXCEPT ![i] = "awaiting"]
              /\ UNCHANGED <<tasks, raised>>
           \/ \* no branch of the if matches
              /\ tasks[k].type \notin KnownTypes
              /\ co' = [co EXCEPT ![i] = "resumed"]
              /\ UNCHANGED <<tasks, raised>>
    /\ UNCHANGED <<event, other, observer, calls, storage, db, running, now, runPc, batch, progress, summary,
                   results, added, pending_out, saved>>

\* process_task, lines 56-64: the awaited runner returns or raises
Resume(i) ==
    /\ runPc = "gather"
    /\ ~InCoroutine
    /\ co[i] = "awaiting"
    /\ LET k == batch[i]
       IN  \/ \E r \in RunnerOutputs :
                /\ tasks' = [tasks EXCEPT ![k].result = r]
                /\ co' = [co EXCEPT ![i] = "resumed"]
                /\ UNCHANGED raised
           \/ \E m \in RunnerErrors :
                /\ tasks' = AfterFailure(tasks, k, m)
                /\ raised' = raised \cup {Raise(k, "runner", m)}
                /\ co' = [co EXCEPT ![i] = "done"]
    /\ UNCHANGED <<event, other, observer, calls, storage, db, running, now, runPc, batch, progress, summary,
                   results, added, pending_out, saved>>

\* process_task, line 66: the record is marked completed
Complete(i) ==
    /\ runPc = "gather"
    /\ co[i] = "resumed"
    /\ tasks' = [tasks EXCEPT ![batch[i]].status = "completed"]
    /\ co' = [co EXCEPT ![i] = "saving"]
    /\ UNCHANGED <<event, other, observer, calls, storage, db, running, now, runPc, batch, progress, summary,
                   results, added, pending_out, raised, saved>>

\* process_task, lines 67-72: _save_result writes the result file, or raises
\* and the except branch marks the record failed
SaveResult(i) ==
    /\ runPc = "gather"
    /\ co[i] = "saving"
    /\ LET k == batch[i]
       IN  \/ /\ results' = WriteFile(results, ResultFile(tasks[k]))
              /\ UNCHANGED <<tasks, raised>>
           \/ \* _save_result raises
              /\ tasks' = AfterFailure(tasks, k, SinkError)
              /\ raised' = raised \cup {Raise(k, "sink", SinkError)}
              /\ UNCHANGED results
    /\ co' = [co EXCEPT ![i] = "done"]
    /\ UNCHANGED <<event, other, observer, calls, storage, db, running, now, runPc, batch, progress, summary,
                   added, pending_out, saved>>

----------------------------------------------------------------------------
(* The store used on its own: save_task and get_pending_tasks called with   *)
(* records of any process that shares data/tasks.db                         *)

StoreIds == {TaskId("code_improvement", n, ImportTime) : n \in 0..(MaxStoreIds - 1)}

\* created_at is the import time of the process that made the record: the
\* records of two processes
CreatedAts == {ImportTime, ImportTime + 1}

\* pending records of any priority and either process
PendingStoreTasks ==
    {[id |-> id, type |-> "code_improvement", input_path |-> "a.py",
      status |-> "pending", created_at |-> c, result |-> None, priority |-> p] :
        id \in StoreIds, c \in CreatedAts, p \in Priorities}

\* completed records, with a result or an empty one
CompletedStoreTasks ==
    {[id |-> id, type |-> "code_improvement", input_path |-> "a.py",
      status |-> "completed", created_at |-> ImportTime, result |-> r,
      priority |-> 0] :
        id \in StoreIds, r \in {Improvements, EmptyDict}}

\* completed records whose result json cannot encode
UnserializableStoreTasks ==
    {[id |-> id, type |-> "code_improvement", input_path |-> "a.py",
      status |-> "completed", created_at |-> ImportTime,
      result |-> Unserializable, priority |-> 0] : id \in StoreIds}

StoreTasks == PendingStoreTasks \cup CompletedStoreTasks \cup UnserializableStoreTasks

\* Storage.init_db
InitDb ==
    /\ db' = InitTable(db)
    /\ pending_out' = <<>>
    /\ saved' = InitCall
    /\ UNCHANGED <<event, other, observer, calls, storage, tasks, running, now, runPc, batch, co, progress,
                   summary, results, added, raised>>

\* Storage.save_task(task)
SaveTaskCall(task) ==
    /\ db' = SaveTask(db, task)
    /\ saved' = Save(db, task)
    /\ pending_out' = <<>>
    /\ UNCHANGED <<event, other, observer, calls, storage, tasks, running, now, runPc, batch, co, progress,
                   summary, results, added, raised>>

\* Storage.get_pending_tasks()
GetPendingTasks ==
    /\ pending_out' \in PendingLists(db)
    /\ saved' = NoSave
    /\ UNCHANGED <<event, other, observer, calls, storage, db, tasks, running, now, runPc, batch, co, progress,
                   summary, results, added, raised>>

StoreNext ==
    \/ InitDb
    \/ \E task \in StoreTasks : SaveTaskCall(task)
    \/ GetPendingTasks

StoreSpec == Init /\ [][StoreNext]_vars

----------------------------------------------------------------------------
Next ==
    \/ AttachStorage
    \/ \E j \in Jobs, path \in Paths : AddTask(j[1], path, j[2])
    \/ RunStart
    \/ RunSelect
    \/ RunReturn
    \/ RunJoin
    \/ \E i \in DOMAIN co : Start(i)
    \/ \E i \in DOMAIN co : Body(i)
    \/ \E i \in DOMAIN co : Resume(i)
    \/ \E i \in DOMAIN co : Complete(i)
    \/ \E i \in DOMAIN co : SaveResult(i)

Spec == Init /\ [][Next]_vars

\* the queue together with its environment: the clock advances and the
\* embedding program may clear the running flag
EnvNext == Next \/ Tick \/ Stop

EnvSpec == Init /\ [][EnvNext]_vars

\* the steps of run() and of the process_task coroutines it gathers
RunNext ==
    \/ RunStart
    \/ RunSelect
    \/ RunReturn
    \/ RunJoin
    \/ \E i \in DOMAIN co : Start(i)
    \/ \E i \in DOMAIN co : Body(i)
    \/ \E i \in DOMAIN co : Resume(i)
    \/ \E i \in DOMAIN co : Complete(i)
    \/ \E i \in DOMAIN co : SaveResult(i)

LiveNext ==
    \/ AttachStorage
    \/ \E j \in LiveJobs, path \in Paths : AddTask(j[1], path, j[2])
    \/ RunNext

\* once run() is entered the event loop runs every coroutine that is ready,
\* and every awaited runner settles; add_task is called at most MaxTasks
\* times and the running flag is never cleared
LiveSpec == Init /\ [][LiveNext]_vars /\ WF_vars(runPc # "idle" /\ RunNext)

StopNext == LiveNext \/ Stop

\* the queue and a stop signal, under the scheduling of LiveSpec
StopSpec == Init /\ [][StopNext]_vars /\ WF_vars(runPc # "idle" /\ RunNext)

\* the process ends and a new one constructs its TaskQueue (__init__, lines
\* 22-26): data/tasks.db and results/ are what outlives the process
Restart ==
    /\ storage' = "unset"
    /\ tasks' = <<>>
    /\ running' = FALSE
    /\ runPc' = "idle"
    /\ batch' = <<>>
    /\ co' = <<>>
    /\ progress' = [total |-> 0, successful |-> 0, failed |-> 0]
    /\ summary' = [returned |-> FALSE, total |-> 0, successful |-> 0, failed |-> 0]
    /\ added' = NoCall
    /\ pending_out' = <<>>
    /\ raised' = {}
    /\ saved' = NoSave
    /\ observer' = "none"
    /\ calls' = [c \in Callers |-> NoFrame]
    /\ event' = NoEvent
    /\ other' = NoRun
    /\ UNCHANGED <<db, now, results>>

\* the queue over several lives of the process
RestartNext ==
    \/ AttachStorage
    \/ \E j \in RestartJobs, path \in Paths : AddTask(j[1], path, j[2])
    \/ Restart
    \/ RunNext

RestartSpec == Init /\ [][RestartNext]_vars

\* enqueueing alone: the callers of add_task of this queue, a queue of
\* another process on the same store, the watcher and the clock
EnqueueNext ==
    \/ AttachStorage
    \/ WatchDirectory
    \/ Tick
    \/ \E j \in Jobs \cup OutOfRangeJobs, path \in Paths : AddTask(j[1], path, j[2])
    \/ \E j \in Jobs, path \in Paths : AddTaskStoreFails(j[1], path, j[2])
    \/ \E j \in PeerJobs, path \in Paths : PeerAddTask(j[1], path, j[2])
    \/ \E path \in EventPaths : OnModified(path)

EnqueueSpec == Init /\ [][EnqueueNext]_vars

\* the watcher beside a run(): events of every kind for the paths of the
\* watched directory
WatchNext ==
    \/ AttachStorage
    \/ WatchDirectory
    \/ \E path \in WatchedPaths : OnModified(path)
    \/ \E kind \in EventKinds, path \in WatchedPaths : OnOther(kind, path)
    \/ RunNext

WatchSpec == Init /\ [][WatchNext]_vars

\* two run() coroutines of one queue on one event loop, over a queue
\* filled before either is entered
OverlapNext ==
    \/ AttachStorage
    \/ /\ Len(tasks) < MaxOverlapTasks
       /\ runPc = "idle" /\ other.pc = "idle"
       /\ \E j \in OverlapJobs, path \in Paths : AddTask(j[1], path, j[2])
    \/ Swap
    \/ RunNext

OverlapSpec == Init /\ [][OverlapNext]_vars

\* add_task taken statement by statement, called by the observer thread and
\* by another thread of the process
ThreadNext ==
    \/ AttachStorage
    \/ WatchDirectory
    \/ Tick
    \/ \E c \in Callers, j \in Jobs \cup {<<"code_improvement", WatchPriority>>},
          path \in Paths : AddBegin(c, j[1], path, j[2])
    \/ \E c \in Callers : AddSave(c)
    \/ \E c \in Callers : AddAppend(c)

ThreadSpec == Init /\ [][ThreadNext]_vars

----------------------------------------------------------------------------
(* Claims *)

Terminal == {"completed", "failed"}

WithStatus(st) == {k \in DOMAIN tasks : tasks[k].status = st}

\* the process_task coroutines whose runner invocation is in flight
InFlight == {i \in DOMAIN co : co[i] = "awaiting"}

\* C1: during run() at most BatchSize = 3 records have status running, and
\* at most 3 runner invocations are in flight, whatever is enqueued meanwhile
C1_ConcurrencyBound ==
    /\ Cardinality(WithStatus("running")) <= BatchSize
    /\ Cardinality(InFlight) <= BatchSize

\* three runners are in flight while a fourth record waits
C1_Witness ==
    /\ Cardinality(InFlight) = BatchSize
    /\ Cardinality(WithStatus("running")) = BatchSize
    /\ WithStatus("pending") # {}

\* C3: when run() is at the head of its loop, where the next batch is
\* selected, every record of the batch before is completed or failed, and a
\* record is running or has a coroutine only as a member of the batch in flight
C3_BatchBarrier ==
    /\ runPc = "loop" => \A i \in DOMAIN batch : tasks[batch[i]].status \in Terminal
    /\ \A k \in WithStatus("running") : runPc = "gather" /\ k \in Range(batch)
    /\ \A i \in DOMAIN co : co[i] # "done" => runPc = "gather"

\* a second batch is in flight after a first batch of three has settled
C3_Witness ==
    /\ runPc = "gather"
    /\ InFlight # {}
    /\ Cardinality({k \in DOMAIN tasks : tasks[k].status \in Terminal}) = BatchSize

\* priority descending, then creation order (the position in tasks) ascending
RankBefore(j, k) ==
    \/ tasks[j].priority > tasks[k].priority
    \/ tasks[j].priority = tasks[k].priority /\ j < k

\* the min(C, n) pending records that rank first
RankedHead ==
    LET P == WithStatus("pending")
    IN  {k \in P : Cardinality({j \in P : RankBefore(j, k)}) < BatchSize}

\* C2: every batch run() selects consists of the first min(C, n) pending
\* records ranked by priority descending, then creation order ascending
C2_BatchByPriority ==
    [][(runPc = "loop" /\ runPc' = "gather") => Range(batch') = RankedHead]_vars

\* C4: a step in which one record fails changes no other record, no other
\* coroutine of the batch and not the position of run(); and run() leaves its
\* loop only when no pending record is left (or the stop flag is set)
C4_FailureIsolation ==
    [][/\ \A k \in DOMAIN tasks :
            (tasks[k].status # "failed" /\ tasks'[k].status = "failed")
            => /\ \A j \in DOMAIN tasks \ {k} : tasks'[j] = tasks[j]
               /\ \A i \in DOMAIN co : batch[i] # k => co'[i] = co[i]
               /\ runPc' = runPc /\ batch' = batch
       /\ (runPc = "loop" /\ runPc' = "done" /\ running)
            => WithStatus("pending") = {}]_vars

\* one member of a batch has failed, another completed with the runner's
\* output, a third is still in flight
C4_Witness ==
    /\ runPc = "gather"
    /\ \E i, j, l \in DOMAIN batch :
          /\ tasks[batch[i]].status = "failed"
          /\ Raise(batch[i], "runner", "boom") \in raised
          /\ tasks[batch[j]].status = "completed"
          /\ tasks[batch[j]].result = Improvements
          /\ co[l] = "awaiting"

\* C5: a record whose runner raised with message m is failed with result
\* {error: m}, and the summary run() returns counts the failed records as
\* failed and the completed records as successful
C5_RunnerError ==
    /\ \A e \in raised : e.by = "runner" =>
          /\ tasks[e.task].status = "failed"
          /\ tasks[e.task].result = ErrorPayload(e.msg)
          /\ tasks[e.task].result # None
    /\ runPc = "done" =>
          /\ summary.failed = Cardinality(WithStatus("failed"))
          /\ summary.successful = Cardinality(WithStatus("completed"))

\* one job alone, its runner raised: failed = 1, successful = 0
C5_Witness ==
    /\ runPc = "done"
    /\ Len(tasks) = 1
    /\ raised = {Raise(1, "runner", "boom")}
    /\ summary.returned /\ summary.failed = 1 /\ summary.successful = 0

\* C6: when run() has returned, the store row of every completed or failed
\* record has the status and result of the record, and is not pending
C6_WriteThrough ==
    runPc = "done" =>
        \A k \in DOMAIN tasks : tasks[k].status \in Terminal =>
            /\ RowOf(tasks[k]) \in BagToSet(db)
            /\ \A r \in BagToSet(PendingRows(db)) : r.id # tasks[k].id

\* C7: an add_task call that returns appends exactly one record, with the
\* returned id, the given type, path and priority, status pending and no
\* result, and the store then has a pending row of that id
C7_EnqueuePost ==
    [][(added' # added /\ added'.op = "returned") =>
          /\ Len(tasks') = Len(tasks) + 1
          /\ SubSeq(tasks', 1, Len(tasks)) = tasks
          /\ LET t == tasks'[Len(tasks')]
             IN  /\ t.id = added'.id
                 /\ t.type = added'.type
                 /\ t.input_path = added'.input_path
                 /\ t.priority = added'.priority
                 /\ t.status = "pending"
                 /\ t.result = None
                 /\ RowOf(t) \in BagToSet(db')
          /\ \E r \in BagToSet(PendingRows(db')) : r.id = added'.id]_vars

\* a second record has been enqueued, with priority 5
C7_Witness ==
    /\ added.op = "returned"
    /\ added.priority = WatchPriority
    /\ Len(tasks) = 2
    /\ tasks[2].id = added.id

\* C8: when run() has returned, results/ holds exactly one file for every
\* completed or failed record, named from its id
C8_ArtifactPerTerminal ==
    runPc = "done" =>
        {f.name : f \in results} =
            {ResultName(tasks[k].id) : k \in {j \in DOMAIN tasks : tasks[j].status \in Terminal}}

\* C9: the list get_pending_tasks returns is sorted by priority descending
\* and, for equal priority, by created_at ascending
C9_PendingOrder ==
    \A i, j \in DOMAIN pending_out : i < j =>
        \/ pending_out[i].priority > pending_out[j].priority
        \/ /\ pending_out[i].priority = pending_out[j].priority
           /\ pending_out[i].created_at <= pending_out[j].created_at

\* at most one row of each id, and no row twice
OneRowPerId(table) ==
    \A r \in BagToSet(table) :
        /\ table[r] = 1
        /\ \A q \in BagToSet(table) : q.id = r.id => q = r

\* C10: after save_task(t) has returned the table has one row per id, the row of t's id
\* holds the fields of t, the rows of other ids are as before, and when the
\* row of t was already stored the table is as before
C10_InsertOrReplace ==
    [][(saved'.op = "save_task" /\ ~saved'.error) =>
          LET t == saved'.task
          IN  /\ OneRowPerId(db')
              /\ RowOf(t) \in BagToSet(db')
              /\ WithoutId(db', t.id) = WithoutId(db, t.id)
              /\ (RowOf(t) \in BagToSet(db) => db' = db)]_vars

\* a save has replaced the row of its id, among rows of other ids
C10_Witness ==
    /\ saved.op = "save_task" /\ saved.replaced
    /\ BagCardinality(db) = 2
    /\ \E r \in BagToSet(db) : r.id = saved.task.id /\ r.status = "completed"

\* the status changes the lifecycle allows
Allowed == {<<"pending", "running">>, <<"running", "completed">>,
            <<"running", "failed">>}

\* C11: the status of a record changes only from pending to running and from
\* running to completed or failed: a completed or failed record keeps its
\* status, and no pending record becomes completed or failed in one step
C11_Lifecycle ==
    [][\A k \in DOMAIN tasks :
          \/ tasks'[k].status = tasks[k].status
          \/ <<tasks[k].status, tasks'[k].status>> \in Allowed]_vars

\* C18: a save_task call whose result cannot be encoded as JSON raises and
\* writes nothing: the table is as it was before the call
C18_FailedSaveWritesNothing ==
    [][(saved'.op = "save_task" /\ saved'.error) => db' = db]_vars

\* a save of an unencodable result has failed for an id that has a row
C18_Witness ==
    /\ saved.op = "save_task" /\ saved.error
    /\ saved.task.result = Unserializable
    /\ \E r \in BagToSet(db) : r.id = saved.task.id

\* C19: init_db leaves the rows of the table as they are, so a second call
\* has the effect of the first
C19_InitIdempotent ==
    [][saved'.op = "init_db" => db' = db]_vars

\* init_db has been called on a table that holds two rows
C19_Witness ==
    /\ saved.op = "init_db"
    /\ BagCardinality(db) = 2

\* C12: no add_task call finds a row of its id in the store: the id it
\* returns was returned by no earlier call of any queue on that store, and
\* its save overwrites the row of no other job
C12_UniqueIds ==
    ~(saved.op = "save_task" /\ saved.replaced)

\* the last record of tasks after the step is a new pending record with these
\* fields, and the store has a pending row of its id
Enqueued(type, path, prio) ==
    /\ Len(tasks') = Len(tasks) + 1
    /\ SubSeq(tasks', 1, Len(tasks)) = tasks
    /\ LET t == tasks'[Len(tasks')]
       IN  /\ t.type = type /\ t.input_path = path /\ t.priority = prio
           /\ t.status = "pending"
           /\ \E r \in BagToSet(PendingRows(db')) : r.id = t.id

\* C16: every modified event for a path ending in .py enqueues exactly one
\* new pending code_improvement record of that path with priority 5, which
\* the store lists as pending
C16_WatcherEnqueues ==
    [][\A path \in EventPaths :
          (EndsWith(path, ".py") /\ OnModified(path) /\ added' # added)
          => Enqueued("code_improvement", path, WatchPriority)]_vars

\* C20: when save_task raises inside add_task, the call ends with that error
\* and the new record is in tasks all the same, pending
C20_QueuedDespiteStoreFailure ==
    [][(added' # added /\ added'.op = "sqlite3.Error") =>
          /\ Len(tasks') = Len(tasks) + 1
          /\ LET t == tasks'[Len(tasks')]
             IN  /\ t.type = added'.type
                 /\ t.input_path = added'.input_path
                 /\ t.priority = added'.priority
                 /\ t.status = "pending"]_vars

\* C13: when run() selects a batch, every pending row of the store is a
\* record of the in-memory queue, also in a process started on a store that
\* holds pending rows
C13_ReloadOnRestart ==
    runPc = "loop" =>
        \A r \in BagToSet(PendingRows(db)) : \E k \in DOMAIN tasks : tasks[k].id = r.id

InBatch == IF runPc = "gather" THEN Range(batch) ELSE {}

\* C15: once the running flag is cleared while a batch is in flight, run()
\* returns with every member of the batch completed or failed; while the flag
\* is clear no batch is selected, and a pending record outside the batch in
\* flight stays pending
C15_StopAfterBatch ==
    /\ (runPc = "gather" /\ ~running) ~>
          (runPc = "done" /\ \A i \in DOMAIN batch : tasks[batch[i]].status \in Terminal)
    /\ [][~running =>
             /\ ~(runPc = "loop" /\ runPc' = "gather")
             /\ \A k \in WithStatus("pending") \ InBatch :
                    tasks'[k].status = "pending"]_vars

\* run() was entered with four records and has returned after its first
\* batch, stopped: the fourth record is still pending
C15_Witness ==
    /\ runPc = "done" /\ ~running
    /\ summary.total = MaxTasks
    /\ Len(batch) = BatchSize
    /\ \A i \in DOMAIN batch : tasks[batch[i]].status \in Terminal
    /\ tasks[MaxTasks].status = "pending"

\* C17: the summary run() returns counts the records the run completed as
\* successful, the records it failed as failed, and their sum as total, also
\* when records were enqueued while the run was in progress
C17_SummaryAggregates ==
    runPc = "done" =>
        /\ summary.successful = Cardinality(WithStatus("completed"))
        /\ summary.failed = Cardinality(WithStatus("failed"))
        /\ summary.total = summary.successful + summary.failed

\* C21: the queue has a store from construction on: no add_task call fails
\* for lack of one
C21_StoreFromConstruction ==
    added.op # "AttributeError"

\* C22: while the runner of one member of a batch is in flight, no member of
\* that batch is still pending
C22_RunningBeforeDispatch ==
    (runPc = "gather" /\ InFlight # {}) =>
        \A j \in DOMAIN batch : tasks[batch[j]].status # "pending"

\* C23: a record whose result file could not be written is completed all
\* the same and keeps the output of its runner
C23_SinkFailureApart ==
    \A e \in raised : e.by = "sink" =>
        /\ tasks[e.task].status = "completed"
        /\ tasks[e.task].result # ErrorPayload(e.msg)

\* C24: after every step a pending or running record has no result, and a
\* result that has been assigned is never assigned again
C24_ResultSetOnce ==
    [][\A k \in DOMAIN tasks :
          /\ tasks'[k].status \in {"pending", "running"} => tasks'[k].result = None
          /\ tasks[k].result # None => tasks'[k].result = tasks[k].result]_vars

\* C25: a completed record is of one of the three known types and carries
\* the output of its runner
C25_CompletedByRunner ==
    \A k \in WithStatus("completed") :
        /\ tasks[k].type \in KnownTypes
        /\ tasks[k].result \in RunnerOutputs

\* C26: a record that is pending outside the batch in flight does not join
\* that batch, is a member of a later batch of the same run(), and run()
\* does not return while a record enqueued since its entry is not terminal
C26_LateEnqueue ==
    /\ \A k \in 1..MaxTasks :
          (runPc = "gather" /\ k \in WithStatus("pending") \ Range(batch))
          ~> (runPc = "gather" /\ k \in Range(batch))
    /\ [][/\ (runPc = "gather" /\ runPc' = "gather") => batch' = batch
          /\ (runPc # "done" /\ runPc' = "done") =>
                \A k \in DOMAIN tasks' :
                   (k > progress.total) => (tasks'[k].status \in Terminal)]_vars

\* run() was entered with one record and has settled it; the record
\* enqueued since is the one member of the batch now in flight
C26_Witness ==
    /\ runPc = "gather"
    /\ progress.total = 1
    /\ progress.successful + progress.failed = 1
    /\ batch = <<2>>
    /\ InFlight = {1}

\* C29: the created_at of a record is the time of the add_task call that
\* made it, so a record enqueued later has the later created_at
C29_CreatedAtIsEnqueueTime ==
    /\ \A k \in DOMAIN tasks : tasks[k].created_at = tasks[k].id[3]
    /\ \A j, k \in DOMAIN tasks :
          tasks[j].id[3] < tasks[k].id[3] => tasks[j].created_at < tasks[k].created_at

\* C30: every record and every row has a priority from 0 to 10
C30_PriorityRange ==
    /\ \A k \in DOMAIN tasks : tasks[k].priority \in MinPriority..MaxPriority
    /\ \A r \in BagToSet(db) : r.priority \in MinPriority..MaxPriority

\* C27: when no add_task call is under way, the records of tasks have ids
\* that differ from one another and each has its row in the store
C27_NoLockNeeded ==
    Calling = {} =>
        /\ \A j, k \in DOMAIN tasks : j # k => tasks[j].id # tasks[k].id
        /\ \A k \in DOMAIN tasks : RowOf(tasks[k]) \in BagToSet(db)

\* C28: the observer thread does not end because add_task raised in the
\* handler
C28_WatcherSurvives ==
    observer # "dead"

\* C36: the records of one queue, enqueued one call after another, have ids
\* that differ from one another: the second component of the id of a record
\* is its position in tasks
C36_IdsDifferInQueue ==
    /\ \A k \in DOMAIN tasks : tasks[k].id[2] = k - 1
    /\ \A j, k \in DOMAIN tasks : j # k => tasks[j].id # tasks[k].id

\* two records of the same type were enqueued within the same second
C36_Witness ==
    /\ Len(tasks) >= 2
    /\ tasks[1].type = tasks[2].type
    /\ tasks[1].id[3] = tasks[2].id[3]
    /\ tasks[1].id # tasks[2].id

\* C37: run() sets the running flag on entry, whatever it was; no step of
\* run() or of its coroutines clears it; and when run() returns with the flag
\* set, no pending record is left and the flag stays set
C37_RunningFlag ==
    [][/\ (runPc = "idle" /\ runPc' = "loop") => running'
       /\ (running /\ ~running') =>
             (runPc' = runPc /\ batch' = batch /\ co' = co /\ tasks' = tasks)
       /\ (runPc = "loop" /\ runPc' = "done" /\ running) =>
             (running' /\ WithStatus("pending") = {})]_vars

\* run() has returned after two batches and the flag is still set
C37_Witness ==
    /\ runPc = "done" /\ running
    /\ Len(tasks) = MaxTasks
    /\ WithStatus("completed") \cup WithStatus("failed") = DOMAIN tasks

\* the fields of a record that are fixed when it is made
Fixed(t) == <<t.id, t.type, t.input_path, t.priority, t.created_at>>

\* C34: no step removes or reorders a record or changes its id, type, path,
\* priority or created_at; a record changes only as a member of the batch in
\* flight, and add_task changes no record that exists
C34_RunFrame ==
    [][/\ Len(tasks') >= Len(tasks)
       /\ \A k \in DOMAIN tasks :
             /\ Fixed(tasks'[k]) = Fixed(tasks[k])
             /\ tasks'[k] # tasks[k] => (runPc = "gather" /\ k \in Range(batch))]_vars

\* a record of priority 5 has failed in a first batch of three while a
\* fourth record is pending
C34_Witness ==
    /\ Len(batch) = BatchSize
    /\ \E i \in DOMAIN batch :
          tasks[batch[i]].status = "failed" /\ tasks[batch[i]].priority = WatchPriority
    /\ \E k \in WithStatus("pending") : k \notin Range(batch)

\* C31: _save_result writes no file of a name that results/ already holds
C31_ArtifactWrittenOnce ==
    [][\A i \in DOMAIN co :
          (SaveResult(i) /\ raised' = raised) =>
              ResultName(tasks[batch[i]].id) \notin {f.name : f \in results}]_vars

\* the coroutines of a batch that wait for a runner
AtRunner(c) == {i \in DOMAIN c : c[i] = "awaiting"}

\* C35: with two run() coroutines on one event loop no record is at a runner
\* twice, and no more than BatchSize runners are in flight
C35_DispatchedOnce ==
    /\ \A i \in AtRunner(co), j \in AtRunner(other.co) : batch[i] # other.batch[j]
    /\ Cardinality(AtRunner(co)) + Cardinality(AtRunner(other.co)) <= BatchSize

\* the watched paths that do not end in .py
Unmanaged == {"notes.txt", "a.pyc", "py"}

\* C33: an event of a kind other than modified, and a modified event for a
\* path that does not end in .py, leave the list of records, the store and
\* the outcome of the last add_task call as they were
C33_OtherEventsIgnored ==
    [][(\/ \E path \in Unmanaged : OnModified(path)
        \/ \E kind \in EventKinds, path \in WatchedPaths : OnOther(kind, path))
       => (tasks' = tasks /\ db' = db /\ added' = added /\ observer' = observer)]_vars

\* the last event was a modification of a.pyc, after the watcher had
\* enqueued a record for a.py
C33_Witness ==
    /\ event = Event("modified", "a.pyc")
    /\ Len(tasks) = 1 /\ tasks[1].input_path = "a.py"
    /\ BagCardinality(db) = 1

\* C32: every modified event for a path ending in .py appends one pending
\* record with an id no earlier record has, whatever the status of the
\* earlier records of that path, and the handler changes no earlier record
\* and no coroutine of run()
C32_OneRecordPerEvent ==
    [][\A path \in WatchedPaths \ Unmanaged :
          (OnModified(path) /\ Len(tasks) < MaxTasks) =>
              /\ Len(tasks') = Len(tasks) + 1
              /\ SubSeq(tasks', 1, Len(tasks)) = tasks
              /\ LET t == tasks'[Len(tasks')]
                 IN  /\ t.status = "pending" /\ t.input_path = path
                     /\ \A k \in DOMAIN tasks : tasks[k].id # t.id
              /\ UNCHANGED <<runPc, batch, co>>]_vars

====
